---------------------------- MODULE Spec2Model ----------------------------
(***************************************************************************)
(* Running Total Stacked Bar Chart (src/src/visual.ts): the Visual's       *)
(* update handler and the four private functions of its transform          *)
(* pipeline, sortQuarters, buildDataArray, computeRunningTotals and        *)
(* transformToStackedData.                                                 *)
(*                                                                         *)
(* JavaScript values are records [t, n, s]: t the type tag, n the number   *)
(* (for "number" and "boolean"), s the characters (for "string" and the    *)
(* source text of a "function").  Strings are sequences of characters.     *)
(* Property names (series names, the keys of the objects the code uses as  *)
(* dictionaries) are TLA+ strings.                                          *)
(*                                                                         *)
(* The drawing keeps, per rectangle and label, the datum d3 binds to it    *)
(* (d.data.quarter, d[0], d[1]); the pixel attributes are the values of    *)
(* the d3 scales at that datum and the viewport and are not modelled.      *)
(***************************************************************************)
EXTENDS Integers, Sequences, FiniteSets, TLC

VARIABLES
    target,           \* this.target: the children of the container element
    opts,             \* the VisualUpdateOptions of the last (or pending) update
    outcome,          \* "constructed", or how the last update ended
    before,           \* what this.target held when the last update began
    arrays,           \* the arrays alive in the last call: categoryValues, quarters
    sortArg,          \* the array sortQuarters was given last ("none": not called)
    sortRet,          \* the array sortQuarters returned last
    sortInput,        \* the elements of that argument when the call began
    sortOrder,        \* the input position of each element of the result
    quarters,         \* update's local quarters, after line 67
    seriesCategories, \* update's local seriesCategories
    data,             \* update's local data
    processedData,    \* update's local processedData
    stackedData       \* update's local stackedData

vars == <<target, opts, outcome, before, arrays, sortArg, sortRet, sortInput,
          sortOrder, quarters, seriesCategories, data, processedData, stackedData>>

------------------------------------------------------------------------------
(* Bounds *)

\* Rows of the categorical column in the tables given to update.
MaxRows == 2

\* Length of the label sequences given to sortQuarters directly.
MaxSortLen == 3

\* d3.schemeCategory10 has ten colours; the fill is picked by i % 10.
PaletteSize == 10

------------------------------------------------------------------------------
(* JavaScript values *)

Num(k) == [t |-> "number", n |-> k, s |-> <<>>]
Str(cs) == [t |-> "string", n |-> 0, s |-> cs]
Bool(b) == [t |-> "boolean", n |-> IF b THEN 1 ELSE 0, s |-> <<>>]
Null == [t |-> "null", n |-> 0, s |-> <<>>]
Undefined == [t |-> "undefined", n |-> 0, s |-> <<>>]
NaN == [t |-> "NaN", n |-> 0, s |-> <<>>]
Fn(src) == [t |-> "function", n |-> 0, s |-> src]

\* typeof v === "number" and v is not NaN.
IsNumber(v) == v.t = "number"

\* ToBoolean, as `!x` and `x || y` apply it.
truthy(v) ==
    CASE v.t = "number" -> v.n # 0
      [] v.t = "string" -> v.s # <<>>
      [] v.t = "boolean" -> v.n = 1
      [] v.t = "function" -> TRUE
      [] OTHER -> FALSE

DigitChar(d) ==
    CASE d = 0 -> "0" [] d = 1 -> "1" [] d = 2 -> "2" [] d = 3 -> "3"
      [] d = 4 -> "4" [] d = 5 -> "5" [] d = 6 -> "6" [] d = 7 -> "7"
      [] d = 8 -> "8" [] OTHER -> "9"

RECURSIVE natDigits(_)
natDigits(k) ==
    IF k < 10 THEN <<DigitChar(k)>>
    ELSE natDigits(k \div 10) \o <<DigitChar(k % 10)>>

\* Number.prototype.toString of an integer.
intToString(k) == IF k < 0 THEN <<"-">> \o natDigits(-k) ELSE natDigits(k)

\* ToString.
toStr(v) ==
    CASE v.t = "number" -> intToString(v.n)
      [] v.t = "string" -> v.s
      [] v.t = "function" -> v.s
      [] v.t = "boolean" -> IF v.n = 1 THEN <<"t", "r", "u", "e">>
                                       ELSE <<"f", "a", "l", "s", "e">>
      [] v.t = "null" -> <<"n", "u", "l", "l">>
      [] v.t = "undefined" -> <<"u", "n", "d", "e", "f", "i", "n", "e", "d">>
      [] OTHER -> <<"N", "a", "N">>

DigitValue(c) ==
    CASE c = "0" -> 0 [] c = "1" -> 1 [] c = "2" -> 2 [] c = "3" -> 3
      [] c = "4" -> 4 [] c = "5" -> 5 [] c = "6" -> 6 [] c = "7" -> 7
      [] c = "8" -> 8 [] c = "9" -> 9 [] OTHER -> -1

RECURSIVE digitsValue(_, _)
digitsValue(cs, acc) ==
    IF cs = <<>> THEN acc
    ELSE digitsValue(Tail(cs), 10 * acc + DigitValue(Head(cs)))

AllDigits(cs) == cs # <<>> /\ \A i \in 1..Len(cs) : DigitValue(cs[i]) >= 0

\* ToNumber of a string: the empty string is 0, a decimal integer is its
\* value, anything else is NaN (the other numeric forms, white space, a
\* fraction, an exponent, a radix prefix, need characters that make a
\* string of this model non-numeric as a whole).
stringToNumber(cs) ==
    IF cs = <<>> THEN Num(0)
    ELSE IF AllDigits(cs) THEN Num(digitsValue(cs, 0))
    ELSE IF Head(cs) = "-" /\ AllDigits(Tail(cs)) THEN Num(-digitsValue(Tail(cs), 0))
    ELSE NaN

\* ToNumber, as unary + and the arithmetic operators apply it.
toNumber(v) ==
    CASE v.t = "number" -> v
      [] v.t = "boolean" -> Num(v.n)
      [] v.t = "null" -> Num(0)
      [] v.t = "string" -> stringToNumber(v.s)
      [] OTHER -> NaN

\* a + b: concatenation when either operand is a string (a function's
\* primitive value is its source text), numeric addition otherwise.
jsAdd(a, b) ==
    IF a.t \in {"string", "function"} \/ b.t \in {"string", "function"}
    THEN Str(toStr(a) \o toStr(b))
    ELSE LET x == toNumber(a)
             y == toNumber(b)
         IN IF x.t = "NaN" \/ y.t = "NaN" THEN NaN ELSE Num(x.n + y.n)

\* a - b.
jsSub(a, b) ==
    LET x == toNumber(a)
        y == toNumber(b)
    IN IF x.t = "NaN" \/ y.t = "NaN" THEN NaN ELSE Num(x.n - y.n)

\* x || 0.
orZero(v) == IF truthy(v) THEN v ELSE Num(0)

\* The property names every object literal inherits from Object.prototype
\* that the model's series names can hit.
ObjectPrototypeKeys == {"constructor"}

\* obj[key] on an object created by the literal {}: an own property, else
\* the inherited one, else undefined.
getProperty(obj, key) ==
    IF key \in DOMAIN obj THEN obj[key]
    ELSE IF key \in ObjectPrototypeKeys
    THEN Fn(<<"function Object() { [native code] }">>)
    ELSE Undefined

\* obj[key] = v.
setProperty(obj, key, v) == [k \in DOMAIN obj \cup {key} |-> IF k = key THEN v ELSE obj[k]]

------------------------------------------------------------------------------
(* String.prototype.localeCompare and Array.prototype.sort *)

\* The collation weights of the characters the period labels are made of:
\* digits sort before letters, and a letter's two cases share a primary
\* weight and differ at the case level, lower case first.
primaryWeight(c) ==
    CASE DigitValue(c) >= 0 -> DigitValue(c) + 1
      [] c \in {"q", "Q"} -> 20
      [] OTHER -> 30

caseWeight(c) == IF c \in {"Q"} THEN 1 ELSE 0

RECURSIVE compareWeights(_, _)
compareWeights(x, y) ==
    IF x = <<>> /\ y = <<>> THEN 0
    ELSE IF x = <<>> THEN -1
    ELSE IF y = <<>> THEN 1
    ELSE IF Head(x) < Head(y) THEN -1
    ELSE IF Head(x) > Head(y) THEN 1
    ELSE compareWeights(Tail(x), Tail(y))

\* a.localeCompare(b) of two strings: the primary weights decide; the case
\* weights break a primary tie; 0 only when both agree.
localeCompare(a, b) ==
    LET byPrimary == compareWeights([i \in 1..Len(a.s) |-> primaryWeight(a.s[i])],
                                    [i \in 1..Len(b.s) |-> primaryWeight(b.s[i])])
    IN IF byPrimary # 0 THEN byPrimary
       ELSE compareWeights([i \in 1..Len(a.s) |-> caseWeight(a.s[i])],
                           [i \in 1..Len(b.s) |-> caseWeight(b.s[i])])

compareQuartersSwapped(a, b) == localeCompare(b, a)

\* The comparator sortQuarters passes to sort: (a, b) => a.localeCompare(b).
compareQuarters(a, b) == localeCompare(a, b)

\* Array.prototype.sort is stable: an element goes after every element that
\* does not compare greater than it.  Entries are [v, i]: the value and the
\* position it had in the input.
RECURSIVE insertEntry(_, _)
insertEntry(sorted, e) ==
    IF sorted = <<>> THEN <<e>>
    ELSE IF compareQuarters(e.v, Head(sorted).v) < 0 THEN <<e>> \o sorted
    ELSE <<Head(sorted)>> \o insertEntry(Tail(sorted), e)

RECURSIVE sortEntries(_, _, _)
sortEntries(sorted, elems, i) ==
    IF i > Len(elems) THEN sorted
    ELSE sortEntries(insertEntry(sorted, [v |-> elems[i], i |-> i]), elems, i + 1)

mapCategoryValuesNoCopy(heap) == [heap |-> heap, ref |-> "categoryValues"]

\* category.values.map(value => value as string): a new array, quarters,
\* with the elements of the host's array; the cast does nothing at run time.
mapCategoryValues(heap) ==
    [heap |-> heap @@ ("quarters" :> heap["categoryValues"]), ref |-> "quarters"]

\* sortQuarters(quarters): Array.prototype.sort sorts the array it is called
\* on in place and returns that array.
sortQuarters(heap, ref) ==
    LET entries == sortEntries(<<>>, heap[ref], 1)
    IN [heap |-> [heap EXCEPT ![ref] = [i \in 1..Len(entries) |-> entries[i].v]],
        ref |-> ref,
        order |-> [i \in 1..Len(entries) |-> entries[i].i]]

------------------------------------------------------------------------------
(* The transform pipeline *)

\* arr[i] of a JavaScript array (zero-based there, one-based here): undefined
\* beyond its end.
element(arr, i) == IF i \in 1..Len(arr) THEN arr[i] ELSE Undefined

RECURSIVE pushQuartersPeriodMajor(_, _, _, _, _)
pushQuartersPeriodMajor(acc, i, quarterList, names, values) ==
    IF i > Len(quarterList) THEN acc
    ELSE pushQuartersPeriodMajor(
             acc \o [j \in 1..Len(names) |->
                        [quarter |-> quarterList[i],
                         category |-> names[j],
                         value |-> orZero(element(values[j].values[1].values, i))]],
             i + 1, quarterList, names, values)

buildDataArrayPeriodMajor(quarterList, names, values) ==
    pushQuartersPeriodMajor(<<>>, 1, quarterList, names, values)

\* The inner loop of buildDataArray (lines 148-157).
RECURSIVE pushQuarters(_, _, _, _, _)
pushQuarters(acc, i, quarterList, category, valueColumn) ==
    IF i > Len(quarterList) THEN acc
    ELSE pushQuarters(Append(acc, [quarter |-> quarterList[i],
                                   category |-> category,
                                   value |-> orZero(element(valueColumn.values, i))]),
                      i + 1, quarterList, category, valueColumn)

\* The outer loop of buildDataArray (lines 144-158); values is what
\* values.grouped() returns, and values[j].values[1] the group's first measure.
RECURSIVE pushCategories(_, _, _, _, _)
pushCategories(acc, j, quarterList, names, values) ==
    IF j > Len(names) THEN acc
    ELSE pushCategories(pushQuarters(acc, 1, quarterList, names[j], values[j].values[1]),
                        j + 1, quarterList, names, values)

buildDataArray(quarterList, names, values) ==
    pushCategories(<<>>, 1, quarterList, names, values)

\* One turn of the forEach of computeRunningTotals (lines 167-181): st is
\* [runningTotals, processedData].
runningTotalStep(st, d) ==
    LET key == d.category
        reset == IF ~truthy(getProperty(st.runningTotals, key))
                 THEN setProperty(st.runningTotals, key, Num(0))
                 ELSE st.runningTotals
        total == jsAdd(getProperty(reset, key), d.value)
    IN [runningTotals |-> setProperty(reset, key, total),
        processedData |-> Append(st.processedData,
                                 [quarter |-> d.quarter,
                                  category |-> d.category,
                                  value |-> d.value,
                                  runningTotal |-> total])]

RECURSIVE runningTotalLoop(_, _, _)
runningTotalLoop(st, points, k) ==
    IF k > Len(points) THEN st
    ELSE runningTotalLoop(runningTotalStep(st, points[k]), points, k + 1)

\* computeRunningTotals (lines 163-184): runningTotals starts as {}.
computeRunningTotals(points) ==
    runningTotalLoop([runningTotals |-> <<>>, processedData |-> <<>>], points, 1).processedData

\* processedData.find(d => d.quarter === quarter && d.category === category):
\* the position of the first match, 0 for none.
RECURSIVE findIndex(_, _, _, _)
findIndex(processed, k, quarter, category) ==
    IF k > Len(processed) THEN 0
    ELSE IF processed[k].quarter = quarter /\ processed[k].category = category THEN k
    ELSE findIndex(processed, k + 1, quarter, category)

\* The inner forEach of transformToStackedData (lines 195-198).
RECURSIVE setCategories(_, _, _, _, _)
setCategories(dataPoint, j, processed, quarter, names) ==
    IF j > Len(names) THEN dataPoint
    ELSE LET k == findIndex(processed, 1, quarter, names[j])
         IN setCategories(setProperty(dataPoint, names[j],
                                      IF k # 0 THEN processed[k].runningTotal ELSE Num(0)),
                          j + 1, processed, quarter, names)

transformToStackedData(processed, quarterList, names) ==
    [i \in 1..Len(quarterList) |->
        setCategories(("quarter" :> quarterList[i]), 1, processed, quarterList[i], names)]

------------------------------------------------------------------------------
(* Layout and drawing *)

\* d3.stack().keys(names)(records), with d3's default value accessor, order
\* and offset: layer j of record i is [y0, y1], y1 = +d[key] + y0, and y0 the
\* y1 of the layer below, or its y0 when that y1 is NaN.
RECURSIVE stackLayer(_, _, _)
stackLayer(record, names, j) ==
    LET v == toNumber(getProperty(record, names[j]))
    IN IF j = 1 THEN [y0 |-> Num(0), y1 |-> v]
       ELSE LET below == stackLayer(record, names, j - 1)
                y0 == IF below.y1.t = "NaN" THEN below.y0 ELSE below.y1
            IN [y0 |-> y0, y1 |-> jsAdd(v, y0)]

\* The svg element update appends (lines 102-134): one g.series per series
\* with its fill, and in each one rect and one text per stacked record.
drawing(records, names, viewport) ==
    [tag |-> "svg",
     width |-> viewport.width,
     height |-> viewport.height,
     series |-> [j \in 1..Len(names) |->
        [fill |-> (j - 1) % PaletteSize,
         rects |-> [i \in 1..Len(records) |->
            [quarter |-> getProperty(records[i], "quarter"),
             y0 |-> stackLayer(records[i], names, j).y0,
             y1 |-> stackLayer(records[i], names, j).y1]],
         texts |-> [i \in 1..Len(records) |->
            [quarter |-> getProperty(records[i], "quarter"),
             text |-> jsSub(stackLayer(records[i], names, j).y1,
                            stackLayer(records[i], names, j).y0)]]]]]

RECURSIVE sumLen(_, _)
sumLen(series, field) ==
    IF series = <<>> THEN 0
    ELSE Len(Head(series)[field]) + sumLen(Tail(series), field)

\* The rect and text elements under the container.
RECURSIVE shapeCount(_)
shapeCount(children) ==
    IF children = <<>> THEN 0
    ELSE sumLen(Head(children).series, "rects") + sumLen(Head(children).series, "texts")
         + shapeCount(Tail(children))

------------------------------------------------------------------------------
(* update *)

removeChildrenNone(children) == children

\* while (this.target.firstChild) this.target.removeChild(this.target.firstChild)
RECURSIVE removeChildren(_)
removeChildren(children) ==
    IF children = <<>> THEN children ELSE removeChildren(Tail(children))

\* !dataView || !dataView.categorical (line 52).
noCategorical(o) == o.dataView \in {"undefined", "noCategorical"}

noColumnsValuesOnly(o) == o.values \in {"undefined", "empty"}

\* !categories || categories.length === 0 || !values || values.length === 0
\* (line 60).
noColumns(o) ==
    o.categories \in {"undefined", "empty"} \/ o.values \in {"undefined", "empty"}

\* Past the two guards the code reads dataView.categorical, categories[0].values
\* and values.grouped(): a TypeError when the object read is undefined.
readsUndefined(o) ==
    o.dataView # "categorical" \/ o.categories # "one" \/ o.values = "undefined"

\* The arrays, locals and drawing of a call that gets past the guards
\* (lines 64-134).
pipeline(o) ==
    LET heap0 == ("categoryValues" :> o.categoryValues)
        mapped == mapCategoryValues(heap0)
        sorted == sortQuarters(mapped.heap, mapped.ref)
        quarterList == sorted.heap[sorted.ref]
        names == [j \in 1..Len(o.groups) |-> o.groups[j].name]
        points == buildDataArray(quarterList, names, o.groups)
        processed == computeRunningTotals(points)
        stacked == transformToStackedData(processed, quarterList, names)
    IN [arrays |-> sorted.heap, sortArg |-> mapped.ref, sortRet |-> sorted.ref,
        sortInput |-> mapped.heap[mapped.ref], sortOrder |-> sorted.order,
        quarters |-> quarterList, seriesCategories |-> names, data |-> points,
        processedData |-> processed, stackedData |-> stacked,
        svg |-> drawing(stacked, names, o.viewport)]

\* What a call that returns at a guard, or throws, leaves behind: no locals.
noPipeline(o) ==
    [arrays |-> ("categoryValues" :> o.categoryValues), sortArg |-> "none",
     sortRet |-> "none", sortInput |-> <<>>, sortOrder |-> <<>>, quarters |-> <<>>,
     seriesCategories |-> <<>>, data |-> <<>>, processedData |-> <<>>,
     stackedData |-> <<>>, svg |-> <<>>]

\* update(options) on a container holding children (lines 45-135): how it
\* ends, the container's children after it, and the locals of the call.
update(children, o) ==
    LET cleared == removeChildren(children)
    IN IF noCategorical(o) \/ noColumns(o)
       THEN [outcome |-> "returned", target |-> cleared, locals |-> noPipeline(o)]
       ELSE IF readsUndefined(o)
       THEN [outcome |-> "threw", target |-> cleared, locals |-> noPipeline(o)]
       ELSE LET p == pipeline(o)
            IN [outcome |-> "drawn", target |-> Append(cleared, p.svg), locals |-> p]

\* The host calls update(o).
Update(o) ==
    \E r \in {update(target, o)} :
       /\ opts' = o
       /\ before' = [children |-> Len(target), shapes |-> shapeCount(target)]
       /\ outcome' = r.outcome
       /\ target' = r.target
       /\ arrays' = r.locals.arrays
       /\ sortArg' = r.locals.sortArg
       /\ sortRet' = r.locals.sortRet
       /\ sortInput' = r.locals.sortInput
       /\ sortOrder' = r.locals.sortOrder
       /\ quarters' = r.locals.quarters
       /\ seriesCategories' = r.locals.seriesCategories
       /\ data' = r.locals.data
       /\ processedData' = r.locals.processedData
       /\ stackedData' = r.locals.stackedData

\* A direct call sortQuarters(quarters) on the array of the state.
SortQuartersCall ==
    /\ "quarters" \in DOMAIN arrays
    /\ LET r == sortQuarters(arrays, "quarters")
       IN /\ arrays' = r.heap
          /\ sortArg' = "quarters"
          /\ sortRet' = r.ref
          /\ sortInput' = arrays["quarters"]
          /\ sortOrder' = r.order
          /\ quarters' = r.heap[r.ref]
    /\ UNCHANGED <<target, opts, outcome, before, seriesCategories, data,
                   processedData, stackedData>>

------------------------------------------------------------------------------
(* Inputs *)

SeqsUpTo(S, n) == UNION {[1..k -> S] : k \in 0..n}

\* Period labels: "q1" < "Q1" < "Q2" for localeCompare, "Q1" < "Q2" < "q1"
\* by code unit.
PeriodLabels == {Str(<<"Q", "1">>), Str(<<"Q", "2">>), Str(<<"q", "1">>)}

\* The labels of the tables the host sends over the life of a visual.
HostLabels == {Str(<<"Q", "1">>), Str(<<"Q", "2">>)}

SortLabels == PeriodLabels \cup {Str(<<"q", "2">>), Str(<<"Q">>)}

Viewports == {[width |-> 300, height |-> 200], [width |-> 600, height |-> 200]}

\* The cells of a group's second measure, which the code never reads.
secondMeasure(n) == [values |-> [i \in 1..n |-> Num(7)]]

\* The options of a host that has categorical data: the categorical column
\* cv, and one group per series name, each with one measure (two with
\* `second`) whose cells series[j] are aligned to the column's rows.
Table(cv, names, series, second, vp) ==
    [dataView |-> "categorical",
     categories |-> "one",
     values |-> "columns",
     categoryValues |-> cv,
     groups |-> [j \in 1..Len(names) |->
         [name |-> names[j],
          values |-> IF second
                     THEN <<[values |-> series[j]], secondMeasure(Len(cv))>>
                     ELSE <<[values |-> series[j]]>>]],
     viewport |-> vp]

\* The cells of the first measures of tables of n rows and m series.
SeriesCells(m, n, cells) == [1..m -> [1..n -> cells]]

\* Options with no data view, no categorical data, or a missing or empty
\* category or value list (the fields that do not exist are placeholders).
DegenerateOptions(viewports) ==
    { [dataView |-> dv, categories |-> "undefined", values |-> "undefined",
       categoryValues |-> <<>>, groups |-> <<>>, viewport |-> vp] :
        dv \in {"undefined", "noCategorical"}, vp \in viewports }
    \cup
    { [dataView |-> "categorical", categories |-> cv[1], values |-> cv[2],
       categoryValues |-> <<>>, groups |-> <<>>, viewport |-> vp] :
        cv \in ({"undefined", "empty", "one"} \X {"undefined", "empty", "columns"})
               \ {<<"one", "columns">>},
        vp \in viewports }

NoOptions ==
    [dataView |-> "undefined", categories |-> "undefined", values |-> "undefined",
     categoryValues |-> <<>>, groups |-> <<>>, viewport |-> [width |-> 0, height |-> 0]]


\* The tables the host sends over the life of a visual: one series A.
HostCells == {Num(0), Num(1)}

\* Numbers, for the transform pipeline.
NumberCells == {Num(-1), Num(0), Num(2)}

\* Every kind of cell a measure can hold.
CellValues ==
    {Num(0), Num(1), Null, Undefined, NaN, Str(<<>>), Str(<<"n", "/", "a">>),
     Bool(TRUE), Bool(FALSE)}

OneViewport == {[width |-> 300, height |-> 200]}

------------------------------------------------------------------------------
(* Specifications *)

\* The visual as constructed, with o the options the host is about to send.
Constructed(o) ==
    /\ target = <<>>
    /\ opts = o
    /\ outcome = "constructed"
    /\ before = [children |-> 0, shapes |-> 0]
    /\ arrays = <<>>
    /\ sortArg = "none"
    /\ sortRet = "none"
    /\ sortInput = <<>>
    /\ sortOrder = <<>>
    /\ quarters = <<>>
    /\ seriesCategories = <<>>
    /\ data = <<>>
    /\ processedData = <<>>
    /\ stackedData = <<>>

\* The visual as constructed, the host about to send one of the tables of
\* up to MaxRows rows with these labels, series names and cells.
ConstructedWithTable(labels, nameLists, cells, second, viewports) ==
    \E cv \in SeqsUpTo(labels, MaxRows) : \E names \in nameLists :
        \E series \in SeriesCells(Len(names), Len(cv), cells) : \E vp \in viewports :
            Constructed(Table(cv, names, series, second, vp))

Init == Constructed(NoOptions)

\* The visual the constructor built (lines 40-43) is still there to be
\* updated, however its last call ended: a call that returned early or threw
\* does not stop the host from calling update again.
Visual == outcome \in {"constructed", "returned", "threw", "drawn"}

\* The host calls update with options that have nothing to draw.
UpdateDegenerate ==
    /\ Visual
    /\ \E o \in DegenerateOptions(Viewports) : Update(o)

\* The host calls update with a table.
UpdateTable ==
    /\ Visual
    /\ \E cv \in SeqsUpTo(HostLabels, MaxRows) :
        \E series \in SeriesCells(1, Len(cv), HostCells) : \E vp \in Viewports :
            Update(Table(cv, <<"A">>, series, FALSE, vp))

Next == UpdateDegenerate \/ UpdateTable

\* The host calls update any number of times, with any options.
Spec == Init /\ [][Next]_vars

\* The first update of a visual.
FirstUpdate == outcome = "constructed" /\ Update(opts)

InitPipeline ==
    ConstructedWithTable(PeriodLabels, {<<"A">>, <<"A", "B">>, <<"B", "A">>},
                         NumberCells, TRUE, OneViewport)

NextPipeline == FirstUpdate

\* One update on a table of numbers, every group with a second measure.
SpecPipeline == InitPipeline /\ [][NextPipeline]_vars

InitQuarterSeries ==
    ConstructedWithTable(HostLabels, {<<"quarter">>, <<"A", "quarter">>},
                         NumberCells, FALSE, OneViewport)

NextQuarterSeries == FirstUpdate

\* One update on a table of numbers with a series named "quarter", the name
\* of the StackedDataPoint's own field.
SpecQuarterSeries == InitQuarterSeries /\ [][NextQuarterSeries]_vars

InitInheritedSeries ==
    ConstructedWithTable(HostLabels, {<<"constructor">>, <<"A", "constructor">>},
                         NumberCells, FALSE, OneViewport)

NextInheritedSeries == FirstUpdate

\* One update on a table of numbers with a series named "constructor", a
\* name every object inherits from Object.prototype.
SpecInheritedSeries == InitInheritedSeries /\ [][NextInheritedSeries]_vars

InitCoercion == ConstructedWithTable(HostLabels, {<<"A">>}, CellValues, FALSE, OneViewport)

NextCoercion == FirstUpdate

\* One update on a table of cells of every kind.
SpecCoercion == InitCoercion /\ [][NextCoercion]_vars

InitSort ==
    \E labels \in SeqsUpTo(SortLabels, MaxSortLen) :
        /\ target = <<>>
        /\ opts = NoOptions
        /\ outcome = "constructed"
        /\ before = [children |-> 0, shapes |-> 0]
        /\ arrays = ("quarters" :> labels)
        /\ sortArg = "none"
        /\ sortRet = "none"
        /\ sortInput = <<>>
        /\ sortOrder = <<>>
        /\ quarters = labels
        /\ seriesCategories = <<>>
        /\ data = <<>>
        /\ processedData = <<>>
        /\ stackedData = <<>>

NextSort == SortQuartersCall

\* sortQuarters called, and called again, on an array of labels.
SpecSort == InitSort /\ [][NextSort]_vars

------------------------------------------------------------------------------
(* Properties *)

Q1 == Str(<<"Q", "1">>)
Q2 == Str(<<"Q", "2">>)

\* The cells of the first measure of group j of options o.
firstMeasure(o, j) == o.groups[j].values[1].values

IsAscending(labels) ==
    \A i, k \in 1..Len(labels) : i < k => localeCompare(labels[i], labels[k]) <= 0

RECURSIVE sumValues(_, _)
sumValues(points, k) == IF k = 0 THEN 0 ELSE points[k].value.n + sumValues(points, k - 1)

\* C1: buildDataArray emits, category-major and period-minor, exactly one
\* DataPoint per category index j and index i of the sorted period list: its
\* period is the i-th sorted label, its category the j-th series name, and its
\* value the i-th cell of the first measure of the j-th group as the host sent
\* it, whatever row that label had there.
C1_PositionalBinding ==
    outcome = "drawn" =>
        LET n == Len(quarters)
            m == Len(opts.groups)
        IN /\ IsAscending(quarters)
           /\ Len(data) = m * n
           /\ \A j \in 1..m : \A i \in 1..n :
                data[(j - 1) * n + i] =
                    [quarter |-> quarters[i],
                     category |-> opts.groups[j].name,
                     value |-> firstMeasure(opts, j)[i]]

\* The scenario of the specification, with A = [2, -1] and B = [0, 2] on the
\* periods ["Q2", "Q1"]: A@Q1 = 2, A@Q2 = -1, B@Q1 = 0, B@Q2 = 2.
C1_Witness ==
    /\ outcome = "drawn"
    /\ opts.categoryValues = <<Q2, Q1>>
    /\ seriesCategories = <<"A", "B">>
    /\ firstMeasure(opts, 1) = <<Num(2), Num(-1)>>
    /\ firstMeasure(opts, 2) = <<Num(0), Num(2)>>
    /\ data = << [quarter |-> Q1, category |-> "A", value |-> Num(2)],
                 [quarter |-> Q2, category |-> "A", value |-> Num(-1)],
                 [quarter |-> Q1, category |-> "B", value |-> Num(0)],
                 [quarter |-> Q2, category |-> "B", value |-> Num(2)] >>

\* The records of computeRunningTotals for one category, in emission order.
pointsOf(category) == SelectSeq(processedData, LAMBDA d : d.category = category)

\* C2: for every category whose DataPoints hold numbers, each runningTotal
\* is the sum of the category's values up to and including that record (the
\* accumulator starts at 0), so the last one is the sum of them all, and the
\* running totals are non-decreasing when all the values are >= 0.
C2_RunningTotals ==
    outcome = "drawn" =>
        \A j \in 1..Len(seriesCategories) :
            LET pts == pointsOf(seriesCategories[j])
            IN (\A k \in 1..Len(pts) : IsNumber(pts[k].value)) =>
                /\ \A k \in 1..Len(pts) : pts[k].runningTotal = Num(sumValues(pts, k))
                /\ (\A k \in 1..Len(pts) : pts[k].value.n >= 0) =>
                       \A k \in 1..(Len(pts) - 1) :
                           /\ IsNumber(pts[k].runningTotal)
                           /\ IsNumber(pts[k + 1].runningTotal)
                           /\ pts[k].runningTotal.n <= pts[k + 1].runningTotal.n

\* C3: for every entry i of the sorted period list, repeated labels included,
\* and every category j, the StackedRecord of entry i holds in the category's
\* field the sum of the category's DataPoint values over the entries 1..i
\* (the field defaults to 0 when no record matches, which never happens here:
\* buildDataArray emits a record for every pair).
C3_StackedRunningTotal ==
    outcome = "drawn" =>
        LET n == Len(quarters)
        IN \A i \in 1..n : \A j \in 1..Len(seriesCategories) :
              stackedData[i][seriesCategories[j]] =
                  Num(sumValues(SubSeq(data, (j - 1) * n + 1, j * n), i))

\* C4: transformToStackedData returns one StackedRecord per entry of the
\* sorted period list, in that order; whatever the categories are named, the
\* record's quarter field is that entry's label and it has a numeric field
\* for every category.
C4_PivotCompleteness ==
    outcome = "drawn" =>
        /\ Len(stackedData) = Len(quarters)
        /\ \A i \in 1..Len(quarters) :
              /\ stackedData[i]["quarter"] = quarters[i]
              /\ \A j \in 1..Len(seriesCategories) :
                    /\ seriesCategories[j] \in DOMAIN stackedData[i]
                    /\ IsNumber(stackedData[i][seriesCategories[j]])

\* Options o with every cell that is not a number replaced by the number 0.
zeroed(o) ==
    [o EXCEPT !.groups =
        [j \in 1..Len(o.groups) |->
            [name |-> o.groups[j].name,
             values |-> [c \in 1..Len(o.groups[j].values) |->
                 [values |-> [i \in 1..Len(o.groups[j].values[c].values) |->
                     LET cell == o.groups[j].values[c].values[i]
                     IN IF IsNumber(cell) THEN cell ELSE Num(0)]]]]]]

\* C5: a cell that is null, undefined, NaN, a string or a boolean counts as
\* the number 0: every DataPoint value is a number, and the DataPoints, the
\* running totals and the StackedRecords are those of the table with 0 in
\* that cell's place; update does not throw.
C5_MissingValuePolicy ==
    outcome # "constructed" =>
        /\ outcome = "drawn"
        /\ \A k \in 1..Len(data) : IsNumber(data[k].value)
        /\ data = pipeline(zeroed(opts)).data
        /\ processedData = pipeline(zeroed(opts)).processedData
        /\ stackedData = pipeline(zeroed(opts)).stackedData

\* The inputs C6 lists: no data view, no categorical data, a missing or
\* empty category list, a missing or empty value list, a column of zero rows.
Degenerate(o) ==
    \/ o.dataView = "undefined"
    \/ o.dataView = "noCategorical"
    \/ o.categories = "undefined"
    \/ o.categories = "empty"
    \/ o.values = "undefined"
    \/ o.values = "empty"
    \/ o.categoryValues = <<>>

\* C6: on each of those inputs update ends without throwing and the
\* container holds no rectangle and no label, whatever it held before.
C6_DegradeToNoOp ==
    (outcome # "constructed" /\ Degenerate(opts)) =>
        /\ outcome \in {"returned", "drawn"}
        /\ shapeCount(target) = 0

\* A column of zero rows sent to a visual that shows a chart: the call gets
\* past the guards, and the new drawing has no shapes.
C6_Witness ==
    /\ outcome = "drawn"
    /\ opts.categoryValues = <<>>
    /\ before.shapes > 0
    /\ Len(target) = 1
    /\ shapeCount(target) = 0

\* C7: after every update the container holds at most one child, and what it
\* holds is what the same call leaves in an empty container: nothing of the
\* earlier calls is left; an update with the options of the one before it
\* leaves the container as it was.
C7_ClearAndRedraw ==
    [][ /\ Len(target') <= 1
        /\ target' = update(<<>>, opts').target
        /\ (outcome # "constructed" /\ opts' = opts) => target' = target ]_vars

\* A chart drawn over the different chart of the call before.
C7_Witness ==
    /\ outcome = "drawn"
    /\ before.children = 1
    /\ before.shapes > 0
    /\ shapeCount(target) > 0
    /\ before.shapes # shapeCount(target)
    /\ Len(target) = 1

\* Options o with its rows rearranged by f: row i of the result is row f[i]
\* of o, the label and the cell of every measure together.
permuted(o, f) ==
    [o EXCEPT !.categoryValues = [i \in 1..Len(o.categoryValues) |-> o.categoryValues[f[i]]],
              !.groups =
        [j \in 1..Len(o.groups) |->
            [name |-> o.groups[j].name,
             values |-> [c \in 1..Len(o.groups[j].values) |->
                 [values |-> [i \in 1..Len(o.groups[j].values[c].values) |->
                     o.groups[j].values[c].values[f[i]]]]]]]]

Distinct(labels) == \A i, k \in 1..Len(labels) : i # k => labels[i] # labels[k]

\* C8: when the period labels are pairwise distinct, the same rows in any
\* other order give every (period label, category) pair the same running
\* total in the StackedRecords.
C8_RowOrderIndependent ==
    (outcome = "drawn" /\ Distinct(opts.categoryValues)) =>
        \A f \in Permutations(1..Len(opts.categoryValues)) :
            LET other == pipeline(permuted(opts, f))
            IN \A i, k \in 1..Len(quarters) :
                  quarters[i] = other.quarters[k] =>
                      \A j \in 1..Len(seriesCategories) :
                          stackedData[i][seriesCategories[j]] =
                              other.stackedData[k][seriesCategories[j]]

\* C9: sortQuarters returns the labels it was given (sortOrder is a
\* permutation of the input positions) in ascending localeCompare order,
\* labels that compare equal in their input order; a sorted input comes back
\* as it was, the empty input empty.
C9_StableAscendingSort ==
    sortArg # "none" =>
        LET result == arrays[sortRet]
            n == Len(sortInput)
        IN /\ Len(result) = n
           /\ Len(sortOrder) = n
           /\ {sortOrder[i] : i \in 1..n} = 1..n
           /\ \A i \in 1..n : result[i] = sortInput[sortOrder[i]]
           /\ IsAscending(result)
           /\ \A i, k \in 1..n :
                 (i < k /\ localeCompare(result[i], result[k]) = 0) =>
                     sortOrder[i] < sortOrder[k]
           /\ IsAscending(sortInput) => result = sortInput
           /\ sortInput = <<>> => result = <<>>

\* Three labels, out of order, two of them the same.
C9_Witness ==
    /\ sortArg = "quarters"
    /\ sortInput = <<Q2, Str(<<"q", "1">>), Q2>>
    /\ arrays["quarters"] = <<Str(<<"q", "1">>), Q2, Q2>>
    /\ sortOrder = <<2, 1, 3>>

\* C10 as written: sortQuarters leaves its argument as it was and returns
\* another array, and the host's column is as it was after update.
C10_SortHasNoSideEffect ==
    outcome = "drawn" =>
        /\ arrays[sortArg] = sortInput
        /\ sortRet # sortArg
        /\ arrays["categoryValues"] = opts.categoryValues

\* C10, amended: sortQuarters sorts the array it is given in place and
\* returns that array; update gives it the copy map made, so the host's
\* column is as it was after update.
C10_SortsACopyInPlace ==
    outcome = "drawn" =>
        /\ sortRet = sortArg
        /\ sortArg # "categoryValues"
        /\ arrays[sortArg] = quarters
        /\ IsAscending(arrays[sortArg])
        /\ arrays["categoryValues"] = opts.categoryValues

\* An update whose column is out of order.
C10_Witness ==
    /\ outcome = "drawn"
    /\ opts.categoryValues = <<Q2, Q1>>
    /\ arrays["categoryValues"] = <<Q2, Q1>>
    /\ sortInput = <<Q2, Q1>>
    /\ arrays[sortArg] = <<Q1, Q2>>

==============================================================================
